---- MODULE Spec2Model ----
(* A model of the lex_helper turn pipeline: LexHelper.handler, the handler  *)
(* chain of _main_handler with its callback re-dispatch,                    *)
(* call_handler_for_file, and format_for_channel.                           *)
EXTENDS Integers, Sequences, FiniteSets, TLC

(***************************************************************************)
(* Bounds                                                                  *)
(***************************************************************************)
\* longest message list one intent handler returns
MaxMsgs == 1
\* longest message list of a response handed directly to format_for_channel
MaxFmtMsgs == 2

(***************************************************************************)
(* Values                                                                  *)
(***************************************************************************)
None == "None"

\* Python values held in session attributes, tagged with their type
NoneVal == [type |-> "NoneType", repr |-> "None"]
IntVal == [type |-> "int", repr |-> "7"]
BoolVal == [type |-> "bool", repr |-> "True"]
DictVal == [type |-> "dict", repr |-> "{'a': 1}"]
StrVal(s) == [type |-> "str", repr |-> s]

\* a conversion that leaves the value as it is
str_identity(v) == v

\* str(v)
str(v) == [type |-> "str", repr |-> v.repr]

IntentNames == {"OrderStatus", "Common_Exit_Feedback"}
CallbackNames == {"Foo_Bar"}
AllIntentNames == IntentNames \cup CallbackNames

\* messages (core/types: LexPlainText, LexSSML, LexImageResponseCard, LexCustomPayload)
PlainText(c) == [kind |-> "PlainText", content |-> c, title |-> None]
SSML(c) == [kind |-> "SSML", content |-> c, title |-> None]
ImageCard(t) == [kind |-> "ImageResponseCard", content |-> None, title |-> t]
CustomPayload(c) == [kind |-> "CustomPayload", content |-> c, title |-> None]

\* custom payload contents: a string, and mappings written as their repr
TextPayload == "{'text': 'hello'}"
MessagePayload == "{'message': 'hello'}"
OtherPayload == "{'other': 1}"

Messages == {PlainText("hi"), SSML("<speak>hi</speak>"), ImageCard("Choose"),
             CustomPayload("raw"), CustomPayload(TextPayload)}

SeqsUpTo(S, n) == UNION {[1..k -> S] : k \in 0..n}

\* the messages intent logic answers with
LogicMessages == {PlainText("hi"), ImageCard("Choose"), CustomPayload("raw")}

MsgLists == SeqsUpTo(LogicMessages, MaxMsgs)
FmtMsgLists == SeqsUpTo(Messages, MaxFmtMsgs)

\* exceptions
Exc(t, m) == [type |-> t, msg |-> m]
IntentNotFoundError == Exc("IntentNotFoundError", "Unable to find handler for intent")
NoFormatterError == Exc("Exception", "No formatter was found for this message type")
NoHandlerFunctionError == Exc("ValueError", "does not have a 'handler' function")
\* f"Unable to find handler for intent: {lex_intent_name}"
no_handler_message(lex_intent_name) ==
    IF lex_intent_name = "OrderStatus" THEN "Unable to find handler for intent: OrderStatus"
    ELSE IF lex_intent_name = "Common_Exit_Feedback"
    THEN "Unable to find handler for intent: Common_Exit_Feedback"
    ELSE "Unable to find handler for intent: Foo_Bar"
NoHandlerForIntentError(lex_intent_name) == Exc("ValueError", no_handler_message(lex_intent_name))
NoSessionStateError == Exc("ValueError", "SessionState not found in response")
NoneResultError == Exc("AttributeError", "'NoneType' object has no attribute 'messages'")
ParseError == Exc("ValidationError", "event")
LogicError == Exc("RuntimeError", "intent logic")
SlotError == Exc("KeyError", "slot")
DisambiguationError == Exc("RuntimeError", "disambiguation")

ErrorText == "I'm sorry, I encountered an error while processing your request. Please try again."

(***************************************************************************)
(* channels/channel_formatting.py                                          *)
(***************************************************************************)
ChannelStrings == {"lex", "sms", "SMS", "web"}

\* str.lower() on the channel strings
lower(s) == IF s = "SMS" THEN "sms" ELSE s

get_channel(channel_string) ==
    IF lower(channel_string) = "sms" THEN "SMSChannel"
    ELSE "LexChannel"

\* Channel.format_plain_text / format_ssml_text: the message unchanged
format_plain_text(channel, message) == message
format_ssml_text(channel, message) == message

add_to_list(lst, item) == Append(lst, item)

content_process_map == {"PlainText", "ImageResponseCard", "SSML"}

\* isinstance(content, dict), "text" in content, "message" in content
is_dict(content) == content \in {TextPayload, MessagePayload, OtherPayload}
has_text_key(content) == content = TextPayload
has_message_key(content) == content = MessagePayload

\* content["text"] / content["message"]
payload_value(content) == IF has_text_key(content) \/ has_message_key(content) THEN "hello" ELSE None

\* channels/lex.py LexChannel.format_custom_payload: a bare string for a mapping
\* with a text or message key, else a custom payload of the stringified content
format_custom_payload(payload) ==
    IF is_dict(payload.content) /\ has_text_key(payload.content)
    THEN [kind |-> "str", content |-> payload_value(payload.content), title |-> None]
    ELSE IF is_dict(payload.content) /\ has_message_key(payload.content)
    THEN [kind |-> "str", content |-> payload_value(payload.content), title |-> None]
    ELSE CustomPayload(payload.content)

\* a card formatter that adds nothing to the list
format_image_card_skips(message, channel, formatted_messages) == formatted_messages

format_image_card(message, channel, formatted_messages) ==
    add_to_list(formatted_messages, message)

format_one(message, channel, formatted_messages) ==
    IF message.kind = "PlainText"
    THEN add_to_list(formatted_messages, format_plain_text(channel, message))
    ELSE IF message.kind = "SSML"
    THEN add_to_list(formatted_messages, format_ssml_text(channel, message))
    ELSE format_image_card(message, channel, formatted_messages)

\* a loop that passes over a message without a formatter
RECURSIVE format_messages_skip_unknown(_, _, _)
format_messages_skip_unknown(msgs, channel, formatted_messages) ==
    IF msgs = <<>> THEN [ok |-> TRUE, msgs |-> formatted_messages]
    ELSE IF Head(msgs).kind \notin content_process_map
    THEN format_messages_skip_unknown(Tail(msgs), channel, formatted_messages)
    ELSE format_messages_skip_unknown(Tail(msgs), channel,
                                      format_one(Head(msgs), channel, formatted_messages))

\* the loop over response.messages: ok = FALSE when a message has no formatter
RECURSIVE format_messages(_, _, _)
format_messages(msgs, channel, formatted_messages) ==
    IF msgs = <<>> THEN [ok |-> TRUE, msgs |-> formatted_messages]
    ELSE IF Head(msgs).kind \notin content_process_map
    THEN [ok |-> FALSE, msgs |-> formatted_messages]
    ELSE format_messages(Tail(msgs), channel, format_one(Head(msgs), channel, formatted_messages))

\* a rewrite that fires whenever the first formatted message is a card
single_card_rewrite_applies_any_length(channel, formatted_messages) ==
    Len(formatted_messages) >= 1 /\ formatted_messages[1].kind = "ImageResponseCard"

single_card_rewrite_applies(channel, formatted_messages) ==
    Len(formatted_messages) = 1 /\ formatted_messages[1].kind = "ImageResponseCard"

single_card_rewrite(formatted_messages) ==
    << PlainText(formatted_messages[1].title),
       [formatted_messages[1] EXCEPT !.title = " "] >>

AttrKeys == {"lex_intent", "user"}

\* the values a session attribute of the response can hold
AttrValues == {NoneVal, IntVal, BoolVal, DictVal, StrVal("x")}

\* model_dump(exclude_none=True) of the session attributes, then str() of every value
stringify_session_attributes(attrs) ==
    [k \in {j \in AttrKeys : attrs[j] # NoneVal} |-> str(attrs[k])]

\* the choices a message offers: the texts of a card's buttons (the card titled
\* "Choose" has the buttons Yes and No, every other message has none)
buttons(message) ==
    IF message.kind = "ImageResponseCard" /\ message.title = "Choose" THEN <<"Yes", "No">>
    ELSE <<>>

\* what _format_plain_text / _format_ssml_text / _format_image_card do with
\* their options_provided argument: none of them appends to it
format_one_options(message, channel, options_provided) == options_provided

\* options_provided after the loop over response.messages
RECURSIVE collect_options(_, _, _)
collect_options(msgs, channel, options_provided) ==
    IF msgs = <<>> THEN options_provided
    ELSE collect_options(Tail(msgs), channel,
                         format_one_options(Head(msgs), channel, options_provided))

\* json.dumps of a list of button texts
json_dumps(options) ==
    IF options = <<"Yes", "No">> THEN "[\"Yes\", \"No\"]"
    ELSE IF options = <<>> THEN "[]"
    ELSE "[...]"

\* lines 77-80: options_provided written into the session attributes
write_options_provided(attrs, options_provided) ==
    IF Len(options_provided) > 0
    THEN [k \in DOMAIN attrs \cup {"options_provided"} |->
            IF k = "options_provided" THEN StrVal(json_dumps(options_provided)) ELSE attrs[k]]
    ELSE attrs

dump_message(m) == [contentType |-> m.kind, content |-> m.content, title |-> m.title]

dump_messages(msgs) == [i \in 1..Len(msgs) |-> dump_message(msgs[i])]

\* the value of a request-attributes reference: <<>> for None, else <<dict>>
deref(h, ref) == IF ref = None THEN <<>> ELSE <<h[ref]>>

\* format_for_channel(response, channel_string): ok = FALSE when it raises;
\* input is the caller's response object as it is after the call
format_for_channel(response, h, channel_string) ==
    LET channel == get_channel(channel_string)
        fm == format_messages(response.messages, channel, <<>>)
        rewrite == fm.ok /\ single_card_rewrite_applies(channel, fm.msgs)
        formatted_messages == IF rewrite THEN single_card_rewrite(fm.msgs) ELSE fm.msgs
    IN  [ok |-> fm.ok,
         body |-> [sessionState |->
                      [dialogAction |-> response.sessionState.dialogAction,
                       intent |-> response.sessionState.intent,
                       sessionAttributes |->
                          write_options_provided(
                              stringify_session_attributes(response.sessionState.sessionAttributes),
                              collect_options(response.messages, channel, <<>>)),
                       activeContexts |-> response.sessionState.activeContexts],
                   requestAttributes |-> deref(h, response.requestAttributes),
                   messages |-> dump_messages(formatted_messages)],
         input |-> IF rewrite
                   THEN [response EXCEPT !.messages = <<[fm.msgs[1] EXCEPT !.title = " "]>>]
                   ELSE response]

(***************************************************************************)
(* Requests, responses, session state                                      *)
(***************************************************************************)
OrderContext == [name |-> "order_in_progress", timeToLiveInSeconds |-> 60, turnsToLive |-> 5]

TransitionToExit == [name |-> "transition_to_exit", timeToLiveInSeconds |-> 900, turnsToLive |-> 20]

SessionState(dialogAction, name, state, attrs, contexts) ==
    [dialogAction |-> dialogAction,
     intent |-> [name |-> name, state |-> state],
     sessionAttributes |-> attrs,
     activeContexts |-> contexts]

EmptySessionState == SessionState(None, None, None, [lex_intent |-> NoneVal, user |-> NoneVal], <<>>)

Response(sessionState, requestAttributes, msgs) ==
    [has_session_state |-> TRUE,
     sessionState |-> sessionState,
     requestAttributes |-> requestAttributes,
     messages |-> msgs]

\* an object without a sessionState attribute
NotAResponse == [Response(EmptySessionState, None, <<>>) EXCEPT !.has_session_state = FALSE]

\* the turn events a caller can send
Events ==
    [valid : {"ok", "bad_session_attributes"},
     intent : IntentNames,
     user : {IntVal},
     activeContexts : {<<>>, <<OrderContext>>},
     requestAttributes : {None, "req"}]
    \cup
    [valid : {"malformed"},
     intent : {None},
     user : {NoneVal},
     activeContexts : {<<>>},
     requestAttributes : {None}]

\* LexRequest(**event) / parse_lex_request(event, session_attributes)
LexRequest(e) ==
    [sessionState |-> SessionState("Delegate", e.intent, "InProgress",
                                   [lex_intent |-> NoneVal, user |-> e.user],
                                   e.activeContexts),
     requestAttributes |-> e.requestAttributes]

NoRequest == [sessionState |-> EmptySessionState, requestAttributes |-> None]

\* the request-attributes dictionaries that can exist during a turn
DictIds == {"req", "h1", "h2"}

EmptyDict == [callback |-> None]

\* what an intent handler is shown: the request with its dictionary read out
snapshot(lex_request, h) ==
    [sessionState |-> lex_request.sessionState,
     requestAttributes |-> deref(h, lex_request.requestAttributes)]

\* exceptions/handlers.py handle_exceptions(ex, lex_request): a closing response
\* carrying one apology message
handle_exceptions(ex, lex_request) ==
    Response([lex_request.sessionState EXCEPT !.dialogAction = "Close",
                                              !.intent.state = "Failed"],
             None,
             <<PlainText(ErrorText)>>)

\* a second parse that never fails
basic_request_fails_never(e) == FALSE

\* handler lines 97-100: LexRequest(**event) raises
basic_request_fails(e) == e.valid = "malformed"

\* LexHelper._create_minimal_error_response
create_minimal_error_response ==
    [sessionState |-> [dialogAction |-> "Close",
                       intent |-> [name |-> "FallbackIntent", state |-> "Failed"],
                       sessionAttributes |-> [k \in {} |-> NoneVal],
                       activeContexts |-> <<>>],
     requestAttributes |-> <<>>,
     messages |-> <<dump_message(PlainText(ErrorText))>>]

(***************************************************************************)
(* core/call_handler_for_file.py                                           *)
(***************************************************************************)
\* the intent names call_handler_for_file is given: those of the turns and two
\* more for calls made on it directly
DirectNames == AllIntentNames \cup {"Get_WeatherReport", "GetWeather"}

\* an intent name as the sequence of its characters
chars(name) ==
    IF name = "OrderStatus"
    THEN <<"O", "r", "d", "e", "r", "S", "t", "a", "t", "u", "s">>
    ELSE IF name = "Common_Exit_Feedback"
    THEN <<"C", "o", "m", "m", "o", "n", "_", "E", "x", "i", "t", "_", "F", "e", "e", "d", "b", "a", "c", "k">>
    ELSE IF name = "Foo_Bar"
    THEN <<"F", "o", "o", "_", "B", "a", "r">>
    ELSE IF name = "Get_WeatherReport"
    THEN <<"G", "e", "t", "_", "W", "e", "a", "t", "h", "e", "r", "R", "e", "p", "o", "r", "t">>
    ELSE IF name = "GetWeather"
    THEN <<"G", "e", "t", "W", "e", "a", "t", "h", "e", "r">>
    ELSE <<>>

UpperCase == <<"A", "B", "C", "D", "E", "F", "G", "H", "I", "J", "K", "L", "M", "N", "O", "P", "Q", "R", "S", "T", "U", "V", "W", "X", "Y", "Z">>
LowerCase == <<"a", "b", "c", "d", "e", "f", "g", "h", "i", "j", "k", "l", "m", "n", "o", "p", "q", "r", "s", "t", "u", "v", "w", "x", "y", "z">>

is_upper(c) == \E i \in DOMAIN UpperCase : UpperCase[i] = c

\* str.lower() on one character
lower_char(c) ==
    IF is_upper(c) THEN LowerCase[CHOOSE i \in DOMAIN UpperCase : UpperCase[i] = c] ELSE c

\* str.lower()
lower_name(name) == [i \in 1..Len(name) |-> lower_char(name[i])]

\* utils/string.py title_to_snake: an underscore before every capital but the
\* first, then lower case
RECURSIVE title_to_snake_from(_, _)
title_to_snake_from(name, i) ==
    IF i > Len(name) THEN <<>>
    ELSE (IF is_upper(name[i]) /\ i > 1 THEN <<"_", lower_char(name[i])>>
          ELSE <<lower_char(name[i])>>)
         \o title_to_snake_from(name, i + 1)

title_to_snake(name) == title_to_snake_from(name, 1)

\* "_" in intent_name
has_separator(name) == \E i \in DOMAIN name : name[i] = "_"

\* a normalisation that only lower-cases
file_to_import_lower_only(intent_name) == lower_name(chars(intent_name))

\* lines 34-39: the module name for an intent name, as its characters
file_to_import(intent_name) ==
    IF has_separator(chars(intent_name)) THEN lower_name(chars(intent_name))
    ELSE title_to_snake(chars(intent_name))

FileNames == {file_to_import(n) : n \in DirectNames}

ModuleStatus == {"missing", "no_handler", "ok"}

\* the request-attributes an intent's logic can put in its response: those of the
\* request (untouched, or with a callback written into them), or a dictionary of
\* its own; each paired with the resulting heap
logic_request_attributes(lex_request, h, own) ==
    {[ref |-> lex_request.requestAttributes, heap |-> h]}
    \cup (IF lex_request.requestAttributes = None THEN {}
          ELSE {[ref |-> lex_request.requestAttributes,
                 heap |-> [h EXCEPT ![lex_request.requestAttributes].callback = cb]]
                  : cb \in CallbackNames})
    \cup {[ref |-> own, heap |-> [h EXCEPT ![own] = [callback |-> cb]]]
            : cb \in CallbackNames \cup {None}}

\* the session state an intent's logic can return: the request's, or that with a
\* session attribute of its own written
logic_session_states(lex_request, own) ==
    {lex_request.sessionState,
     [lex_request.sessionState EXCEPT !.sessionAttributes.user = StrVal(own)]}

\* handler_func(lex_request) of an intent module: every outcome of user logic
handler_func(lex_request, h, own) ==
    {[kind |-> "raise", exc |-> <<LogicError>>, response |-> <<>>, heap |-> h],
     [kind |-> "raise", exc |-> <<IntentNotFoundError>>, response |-> <<>>, heap |-> h],
     [kind |-> "none", exc |-> <<>>, response |-> <<>>, heap |-> h]}
    \cup
    {[kind |-> "return", exc |-> <<>>,
      response |-> <<Response(ss, ra.ref, msgs)>>, heap |-> ra.heap]
        : ss \in logic_session_states(lex_request, own),
          ra \in logic_request_attributes(lex_request, h, own),
          msgs \in MsgLists}

\* except clauses that turn IntentNotFoundError into a response as well
call_handler_except_returns_all(e, lex_request) ==
    [kind |-> "return", exc |-> <<>>, response |-> <<handle_exceptions(e, lex_request)>>]

\* the except clauses of call_handler_for_file (lines 77-84)
call_handler_except(e, lex_request) ==
    IF e = IntentNotFoundError
    THEN [kind |-> "raise", exc |-> <<e>>, response |-> <<>>]
    ELSE [kind |-> "return", exc |-> <<>>, response |-> <<handle_exceptions(e, lex_request)>>]

\* call_handler_for_file(intent_name, lex_request, package_name): the set of its
\* outcomes.  imported: the module status found; called: handler_func was invoked;
\* raised: what handler_func (or the lookup) raised inside
call_handler_for_file(intent_name, lex_request, h, mods, own) ==
    LET f == file_to_import(intent_name)
        statuses == IF mods[f] = "unknown" THEN ModuleStatus ELSE {mods[f]}
        out(st, o, called, raised, h2) ==
            [kind |-> o.kind, exc |-> o.exc, response |-> o.response,
             heap |-> h2, modules |-> [mods EXCEPT ![f] = st],
             called |-> called, raised |-> raised, status |-> st]
        of_status(st) ==
            IF st = "missing"
            THEN {out(st, call_handler_except(IntentNotFoundError, lex_request),
                      FALSE, <<IntentNotFoundError>>, h)}
            ELSE IF st = "no_handler"
            THEN {out(st, call_handler_except(NoHandlerFunctionError, lex_request),
                      FALSE, <<NoHandlerFunctionError>>, h)}
            ELSE {IF r.kind = "raise"
                  THEN out(st, call_handler_except(r.exc[1], lex_request), TRUE, r.exc, r.heap)
                  ELSE IF r.kind = "none"
                  THEN out(st, call_handler_except(NoneResultError, lex_request),
                           TRUE, <<NoneResultError>>, r.heap)
                  ELSE out(st, [kind |-> "return", exc |-> <<>>, response |-> r.response],
                           TRUE, <<>>, r.heap)
                    : r \in handler_func(lex_request, h, own)}
    IN  UNION {of_status(st) : st \in statuses}

(***************************************************************************)
(* core/handler.py: the handlers of the chain                              *)
(***************************************************************************)
\* what the disambiguation collaborator can answer with
DisambiguationCompleted(lex_payload) ==
    Response([lex_payload.sessionState EXCEPT !.dialogAction = "Delegate"],
             lex_payload.requestAttributes, <<PlainText("Switching")>>)

DisambiguationPrompt(lex_payload) ==
    Response([lex_payload.sessionState EXCEPT !.dialogAction = "ElicitIntent"],
             lex_payload.requestAttributes, <<PlainText("Which one?")>>)

HandlerOutcome(kind, resp, e, calls) ==
    [kind |-> kind, response |-> resp, exc |-> e, calls |-> calls]

\* what the collaborator did in one call of the disambiguation handler: how
\* process_disambiguation_response ended and what analyze_request answered
NoAnalysis == [should_disambiguate |-> FALSE, candidates |-> 0]
Steps(first, analysed, analysis_result) ==
    [first |-> first, analysed |-> analysed, analysis_result |-> analysis_result]

\* a test that asks for a prompt without looking at the candidates
should_prompt_ignores_candidates(analysis_result) == analysis_result.should_disambiguate

\* line 302: analysis_result.should_disambiguate and analysis_result.candidates
should_prompt(analysis_result) ==
    analysis_result.should_disambiguate /\ analysis_result.candidates > 0

\* LexHelper.disambiguation_intent_handler(lex_payload): the set of its outcomes,
\* each with the collaborator calls made, in order
disambiguation_intent_handler(lex_payload) ==
    LET p == <<"process_disambiguation_response">>
        pa == <<"process_disambiguation_response", "analyze_request">>
        pah == <<"process_disambiguation_response", "analyze_request", "handle_disambiguation">>
        out(kind, resp, e, calls, steps) == HandlerOutcome(kind, resp, e, calls) @@ [steps |-> steps]
    IN  \* process_disambiguation_response returns a response, or raises
        {out("return", <<DisambiguationCompleted(lex_payload)>>, <<>>, p,
             Steps("response", FALSE, NoAnalysis)),
         out("return", <<NotAResponse>>, <<>>, p, Steps("response", FALSE, NoAnalysis)),
         out("raise", <<>>, <<DisambiguationError>>, p, Steps("raise", FALSE, NoAnalysis)),
         out("raise", <<>>, <<IntentNotFoundError>>, p, Steps("raise", FALSE, NoAnalysis))}
        \cup
        \* it returns None and analyze_request raises
        {out("raise", <<>>, <<DisambiguationError>>, pa, Steps("none", FALSE, NoAnalysis))}
        \cup
        \* it returns None and analyze_request returns an analysis
        UNION {LET analysis_result == [should_disambiguate |-> should_disambiguate,
                                       candidates |-> candidates]
                   steps == Steps("none", TRUE, analysis_result)
               IN  IF should_prompt(analysis_result)
                   THEN {out("return", <<DisambiguationPrompt(lex_payload)>>, <<>>, pah, steps),
                         out("raise", <<>>, <<DisambiguationError>>, pah, steps)}
                   ELSE {out("none", <<>>, <<>>, pa, steps)}
                 : should_disambiguate \in BOOLEAN, candidates \in 0..1}

\* a test that takes no intent for the exit-feedback intent
contains_exit_feedback_never(intent_name) == FALSE

\* intent_name.__contains__("Common_Exit_Feedback") on the intent names
contains_exit_feedback(intent_name) == intent_name = "Common_Exit_Feedback"

\* a preparation that leaves lex_intent as it came
prepare_request_keeps_lex_intent(lex_payload) ==
    IF ~contains_exit_feedback(lex_payload.sessionState.intent.name)
    THEN [lex_payload EXCEPT !.sessionState.activeContexts = <<TransitionToExit>>]
    ELSE lex_payload

\* regular_intent_handler lines 330-351: lex_intent and the transition context
prepare_request(lex_payload) ==
    LET name == lex_payload.sessionState.intent.name
        p1 == [lex_payload EXCEPT !.sessionState.sessionAttributes.lex_intent = StrVal(name)]
    IN  IF ~contains_exit_feedback(name)
        THEN [p1 EXCEPT !.sessionState.activeContexts = <<TransitionToExit>>]
        ELSE p1

\* dialog.handle_any_unknown_slot_choice: a response that asks again
UnknownSlotChoiceResponse(lex_payload) ==
    Response([lex_payload.sessionState EXCEPT !.dialogAction = "ElicitSlot"],
             lex_payload.requestAttributes, <<PlainText("Please choose one of the options")>>)

\* a test that dispatches to the intent whatever the slots hold
dispatches_always(unknown_slot_choices) == TRUE

\* lines 352-358: the intent's module is called when any_unknown_slot_choices is false
dispatches(unknown_slot_choices) == unknown_slot_choices = "no"

\* LexHelper.regular_intent_handler(lex_payload): the set of its outcomes, each
\* with the request as the handler leaves it
regular_intent_handler(lex_payload, h, mods) ==
    LET prepared == prepare_request(lex_payload)
        name == prepared.sessionState.intent.name
        base == [payload |-> prepared, heap |-> h, modules |-> mods,
                 called |-> FALSE, dispatched |-> FALSE, raised |-> <<>>,
                 status |-> "unknown"]
        \* the handler's outcomes when any_unknown_slot_choices answers
        answered(unknown_slot_choices) ==
            IF dispatches(unknown_slot_choices)
            THEN {[payload |-> prepared, heap |-> o.heap, modules |-> o.modules,
                   called |-> o.called, dispatched |-> TRUE, raised |-> o.raised,
                   status |-> o.status, unknown_slot_choices |-> unknown_slot_choices,
                   kind |-> o.kind, response |-> o.response, exc |-> o.exc]
                     : o \in call_handler_for_file(name, prepared, h, mods, "h1")}
            ELSE {base @@ [kind |-> "return",
                           response |-> <<UnknownSlotChoiceResponse(prepared)>>,
                           exc |-> <<>>, unknown_slot_choices |-> unknown_slot_choices]}
    IN  \* any_unknown_slot_choices raises
        {base @@ [kind |-> "raise", response |-> <<>>, exc |-> <<SlotError>>,
                  unknown_slot_choices |-> "raise"]}
        \cup
        \* any_unknown_slot_choices is true, or false
        answered("yes") \cup answered("no")

(***************************************************************************)
(* core/handler.py: control flow of handler and _main_handler              *)
(***************************************************************************)
\* handler without its try/except
auto_exception_handling_off(cfg) == FALSE

\* line 91: whether handler wraps the turn in its try/except
auto_exception_handling(cfg) == cfg.auto_handle_exceptions

\* the chain with the regular intent handler put first
build_handlers_regular_first(disambiguation) ==
    IF disambiguation
    THEN <<"regular_intent_handler", "disambiguation_intent_handler">>
    ELSE <<"regular_intent_handler">>

\* lines 181-193: the handler chain
build_handlers(disambiguation) ==
    IF disambiguation
    THEN <<"disambiguation_intent_handler", "regular_intent_handler">>
    ELSE <<"regular_intent_handler">>

\* a loop that treats IntentNotFoundError as a decline too
loop_except_continue_all(e) == "continue"

\* a loop that lets every exception of a handler out
loop_except_raise_all(e) == "raise"

\* lines 206-214: what the loop does with an exception of a handler
loop_except(e) == IF e = IntentNotFoundError THEN "raise" ELSE "continue"

\* except clauses that answer every exception with handle_exceptions
main_except_clause_handles_all(e) == "handle_exceptions"

\* except clauses that let every exception out of _main_handler
main_except_clause_raises_all(e) == "raise"

\* lines 251-258: what _main_handler does with an exception of its try block
main_except_clause(e) == IF e = IntentNotFoundError THEN "raise" ELSE "handle_exceptions"

\* line 233
has_callback(h, ref) == ref # None /\ h[ref].callback # None

\* a re-dispatch that leaves the callback key in place
pop_callback_noop(h, ref) == h

\* line 238: response.requestAttributes.pop("callback")
pop_callback(h, ref) == [h EXCEPT ![ref].callback = None]

\* _main_handler returning the response instead of formatted_response
main_handler_return_unformatted(resp_dump, formatted_response) == resp_dump

\* lines 264-266: _main_handler returns formatted_response
main_handler_return(resp_dump, formatted_response) == formatted_response

\* model_dump of a response that was not formatted
raw_dump(resp, h) ==
    [sessionState |-> [dialogAction |-> resp.sessionState.dialogAction,
                       intent |-> resp.sessionState.intent,
                       sessionAttributes |-> resp.sessionState.sessionAttributes,
                       activeContexts |-> resp.sessionState.activeContexts],
     requestAttributes |-> deref(h, resp.requestAttributes),
     messages |-> dump_messages(resp.messages)]

(***************************************************************************)
(* State                                                                   *)
(***************************************************************************)
VARIABLES
    config,                 \* Config: auto_handle_exceptions, enable_disambiguation
    disambiguation_handler, \* self.disambiguation_handler is set
    event,                  \* the turn event
    pc,                     \* where the turn is
    lex_payload,            \* the parsed request
    heap,                   \* the request-attributes dictionaries, by identity
    modules,                \* the intent modules found so far, by file name
    handlers, idx,          \* the handler chain and the loop position
    response,               \* <<>> for None, else <<response>>
    messages,               \* the message list _main_handler accumulates
    callback_name,
    exc,                    \* the exception in flight, <<>> if none
    result,                 \* what the caller of the entry point receives
    invoked,                \* the operations performed, in order
    seen,                   \* the requests shown to intent logic, in order
    routed,                 \* the intent names given to call_handler_for_file
    disambiguated,          \* the collaborator steps of each disambiguation handler call, its outcome
    regular_calls,          \* each regular intent handler call: the slot test, the request, the outcome
    calls,                  \* each call_handler_for_file call: what happened inside, how it ended
    responses,              \* the responses _main_handler obtained, in order
    raised_in_chain,        \* the exceptions handlers of the chain raised
    accepted_by,            \* the handler whose response ended the loop
    handled,                \* the exception given to handle_exceptions at line 258
    outer_caught,           \* the exception caught at line 95
    main_returned,          \* what _main_handler returned
    fmt_args,               \* the arguments of the last format_for_channel call
    fmt_output,             \* its output
    fmt_input               \* its response argument after the call

vars == <<config, disambiguation_handler, event, pc, lex_payload, heap, modules,
          handlers, idx, response, messages, callback_name, exc, result, invoked,
          seen, routed, disambiguated, regular_calls, calls, responses, raised_in_chain,
          accepted_by, handled, outer_caught, main_returned, fmt_args, fmt_output, fmt_input>>

Configs == [auto_handle_exceptions : BOOLEAN, enable_disambiguation : BOOLEAN]

Pending == [kind |-> "pending", body |-> <<>>, exc |-> <<>>]
Returned(body) == [kind |-> "return", body |-> <<body>>, exc |-> <<>>]
Raised(e) == [kind |-> "raise", body |-> <<>>, exc |-> <<e>>]

\* LexHelper.__init__
Init ==
    /\ config \in Configs
    /\ \E disambiguation_available \in BOOLEAN :
          disambiguation_handler = (config.enable_disambiguation /\ disambiguation_available)
    /\ event = CHOOSE e \in Events : e.valid = "malformed"
    /\ pc = "idle"
    /\ lex_payload = NoRequest
    /\ heap = [d \in DictIds |-> EmptyDict]
    /\ modules = [f \in FileNames |-> "unknown"]
    /\ handlers = <<>>
    /\ idx = 0
    /\ response = <<>>
    /\ messages = <<>>
    /\ callback_name = None
    /\ exc = <<>>
    /\ result = Pending
    /\ invoked = <<>>
    /\ seen = <<>>
    /\ routed = <<>>
    /\ disambiguated = <<>>
    /\ regular_calls = <<>>
    /\ calls = <<>>
    /\ responses = <<>>
    /\ raised_in_chain = <<>>
    /\ accepted_by = None
    /\ handled = <<>>
    /\ outer_caught = <<>>
    /\ main_returned = <<>>
    /\ fmt_args = <<>>
    /\ fmt_output = <<>>
    /\ fmt_input = <<>>

history == <<seen, routed, disambiguated, regular_calls, calls, responses, raised_in_chain, accepted_by, handled, outer_caught>>
fmt == <<fmt_args, fmt_output, fmt_input>>
setup == <<config, disambiguation_handler>>
chain == <<handlers, idx>>

\* an exception leaves _main_handler and _handle_request_with_auto_exception_handling
Escapes(e) ==
    /\ exc' = <<e>>
    /\ IF auto_exception_handling(config)
       THEN pc' = "outer_except" /\ result' = result
       ELSE pc' = "done" /\ result' = Raised(e)

\* handler(event, context), lines 72-94 and 113
handler ==
    /\ pc = "idle"
    /\ \E e \in Events : event' = e
    /\ pc' = "parse"
    /\ invoked' = Append(invoked, "handler")
    /\ UNCHANGED <<setup, lex_payload, heap, modules, chain, response, messages,
                   callback_name, exc, result, history, main_returned, fmt>>

\* _handle_request_with_auto_exception_handling, lines 115-146
handle_request ==
    /\ pc = "parse"
    /\ invoked' = Append(invoked, "parse_lex_request")
    /\ IF event.valid = "ok"
       THEN /\ lex_payload' = LexRequest(event)
            /\ pc' = "main_start"
            /\ UNCHANGED <<exc, result>>
       ELSE /\ Escapes(ParseError)
            /\ UNCHANGED lex_payload
    /\ UNCHANGED <<setup, event, heap, modules, chain, response, messages,
                   callback_name, history, main_returned, fmt>>

\* _main_handler, lines 170-196
main_handler_start ==
    /\ pc = "main_start"
    /\ handlers' = build_handlers(disambiguation_handler)
    /\ idx' = 1
    /\ response' = <<>>
    /\ messages' = <<>>
    /\ pc' = "chain"
    /\ invoked' = Append(invoked, "_main_handler")
    /\ UNCHANGED <<setup, event, lex_payload, heap, modules, callback_name, exc,
                   result, history, main_returned, fmt>>

\* lines 197-214: the rest of one loop iteration, given the handler's outcome
loop_iteration(name, o) ==
    /\ IF o.kind = "return"
       THEN /\ response' = o.response
            /\ accepted_by' = name
            /\ pc' = "after_chain"
            /\ UNCHANGED <<idx, exc, raised_in_chain>>
       ELSE IF o.kind = "none"
       THEN /\ response' = <<>>
            /\ idx' = idx + 1
            /\ pc' = IF idx + 1 > Len(handlers) THEN "after_chain" ELSE "chain"
            /\ UNCHANGED <<exc, raised_in_chain, accepted_by>>
       ELSE /\ raised_in_chain' = Append(raised_in_chain, [handler |-> name, exc |-> o.exc[1]])
            /\ UNCHANGED <<response, accepted_by>>
            /\ IF loop_except(o.exc[1]) = "raise"
               THEN /\ exc' = o.exc
                    /\ pc' = "main_except"
                    /\ UNCHANGED idx
               ELSE /\ idx' = idx + 1
                    /\ pc' = IF idx + 1 > Len(handlers) THEN "after_chain" ELSE "chain"
                    /\ UNCHANGED exc

\* one loop iteration whose handler is disambiguation_intent_handler
chain_disambiguation ==
    /\ pc = "chain"
    /\ handlers[idx] = "disambiguation_intent_handler"
    /\ \E o \in disambiguation_intent_handler(lex_payload) :
          /\ invoked' = Append(invoked, "disambiguation_intent_handler") \o o.calls
          /\ UNCHANGED regular_calls
          /\ disambiguated' = Append(disambiguated, [steps |-> o.steps, calls |-> o.calls,
                                                     kind |-> o.kind, response |-> o.response])
          /\ loop_iteration("disambiguation_intent_handler", o)
    /\ UNCHANGED <<setup, event, lex_payload, heap, modules, handlers, messages,
                   callback_name, result, seen, routed, calls, responses, handled,
                   outer_caught, main_returned, fmt>>

\* the record kept of one call_handler_for_file call
call_record(intent_name, o) ==
    [intent |-> intent_name, file |-> file_to_import(intent_name),
     status |-> o.status, called |-> o.called, raised |-> o.raised, kind |-> o.kind, exc |-> o.exc, response |-> o.response]

\* one loop iteration whose handler is regular_intent_handler
chain_regular ==
    /\ pc = "chain"
    /\ handlers[idx] = "regular_intent_handler"
    /\ \E o \in regular_intent_handler(lex_payload, heap, modules) :
          /\ lex_payload' = o.payload
          /\ heap' = o.heap
          /\ modules' = o.modules
          /\ invoked' = Append(invoked, "regular_intent_handler")
                          \o (IF o.dispatched THEN <<"call_handler_for_file">> ELSE <<>>)
                          \o (IF o.called THEN <<"handler_func">> ELSE <<>>)
          /\ UNCHANGED disambiguated
          /\ regular_calls' = Append(regular_calls,
                                     [unknown_slot_choices |-> o.unknown_slot_choices,
                                      dispatched |-> o.dispatched, called |-> o.called,
                                      kind |-> o.kind, response |-> o.response,
                                      request |-> snapshot(o.payload, heap)])
          /\ routed' = IF o.dispatched
                       THEN Append(routed, o.payload.sessionState.intent.name)
                       ELSE routed
          /\ calls' = IF o.dispatched
                      THEN Append(calls, call_record(o.payload.sessionState.intent.name, o))
                      ELSE calls
          /\ seen' = IF o.called
                     THEN Append(seen, [by |-> "regular_intent_handler",
                                        request |-> snapshot(o.payload, heap)])
                     ELSE seen
          /\ loop_iteration("regular_intent_handler", o)
    /\ UNCHANGED <<setup, event, handlers, messages, callback_name, result,
                   responses, handled, outer_caught, main_returned, fmt>>

\* a response with its request-attributes dictionary read out
response_snapshot(resp, h) ==
    [sessionState |-> resp.sessionState,
     requestAttributes |-> deref(h, resp.requestAttributes),
     messages |-> resp.messages]

\* lines 216-233: after the loop, up to the callback test
after_chain ==
    /\ pc = "after_chain"
    /\ IF response = <<>>
       THEN /\ exc' = <<NoHandlerForIntentError(event.intent)>>
            /\ pc' = "main_except"
            /\ UNCHANGED <<lex_payload, messages, responses>>
       ELSE IF ~response[1].has_session_state
       THEN /\ exc' = <<NoSessionStateError>>
            /\ pc' = "main_except"
            /\ UNCHANGED <<lex_payload, messages, responses>>
       ELSE /\ lex_payload' = [sessionState |-> response[1].sessionState,
                               requestAttributes |-> response[1].requestAttributes]
            /\ messages' = response[1].messages
            /\ responses' = Append(responses, response_snapshot(response[1], heap))
            /\ pc' = IF has_callback(heap, response[1].requestAttributes)
                     THEN "callback" ELSE "assign_messages"
            /\ UNCHANGED exc
    /\ UNCHANGED <<setup, event, heap, modules, chain, response, callback_name,
                   result, invoked, seen, routed, disambiguated,
                   regular_calls, calls, raised_in_chain, accepted_by,
                   handled, outer_caught, main_returned, fmt>>

\* a re-dispatch that is repeated while the response names a callback
after_callback_follows(h, ref) == IF has_callback(h, ref) THEN "callback" ELSE "assign_messages"

\* lines 243-248: after the callback's response the messages are assigned, whatever
\* its request attributes hold
after_callback(h, ref) == "assign_messages"

\* lines 235-238: read the callback name and remove the key
callback_pop ==
    /\ pc = "callback"
    /\ callback_name' = heap[response[1].requestAttributes].callback
    /\ heap' = pop_callback(heap, response[1].requestAttributes)
    /\ pc' = "callback_call"
    /\ UNCHANGED <<setup, event, lex_payload, modules, chain, response, messages,
                   exc, result, invoked, history, main_returned, fmt>>

\* lines 239-244: the re-dispatch to the callback intent
callback_call ==
    /\ pc = "callback_call"
    /\ \E o \in call_handler_for_file(callback_name, lex_payload, heap, modules, "h2") :
          /\ heap' = o.heap
          /\ modules' = o.modules
          /\ invoked' = Append(invoked, "call_handler_for_file")
                          \o (IF o.called THEN <<"handler_func">> ELSE <<>>)
          /\ UNCHANGED <<disambiguated, regular_calls>>
          /\ routed' = Append(routed, callback_name)
          /\ calls' = Append(calls, call_record(callback_name, o))
          /\ seen' = IF o.called
                     THEN Append(seen, [by |-> "callback", request |-> snapshot(lex_payload, heap)])
                     ELSE seen
          /\ IF o.kind = "return"
             THEN /\ response' = o.response
                  /\ lex_payload' = [lex_payload EXCEPT !.sessionState = o.response[1].sessionState]
                  /\ messages' = messages \o o.response[1].messages
                  /\ responses' = Append(responses, response_snapshot(o.response[1], o.heap))
                  /\ pc' = after_callback(o.heap, o.response[1].requestAttributes)
                  /\ UNCHANGED exc
             ELSE /\ exc' = o.exc
                  /\ pc' = "main_except"
                  /\ UNCHANGED <<response, lex_payload, messages, responses>>
    /\ UNCHANGED <<setup, event, chain, callback_name, result, raised_in_chain,
                   accepted_by, handled, outer_caught, main_returned, fmt>>

\* line 248: response.messages = messages
assign_messages ==
    /\ pc = "assign_messages"
    /\ response' = <<[response[1] EXCEPT !.messages = messages]>>
    /\ pc' = "format"
    /\ UNCHANGED <<setup, event, lex_payload, heap, modules, chain, messages,
                   callback_name, exc, result, invoked, history, main_returned, fmt>>

\* lines 251-258: the except clauses of _main_handler
main_except ==
    /\ pc = "main_except"
    /\ IF main_except_clause(exc[1]) = "raise"
       THEN /\ Escapes(exc[1])
            /\ UNCHANGED <<response, handled, invoked>>
       ELSE /\ response' = <<handle_exceptions(exc[1], lex_payload)>>
            /\ handled' = <<exc[1]>>
            /\ invoked' = Append(invoked, "handle_exceptions")
            /\ exc' = <<>>
            /\ pc' = "format"
            /\ UNCHANGED result
    /\ UNCHANGED <<setup, event, lex_payload, heap, modules, chain, messages,
                   callback_name, seen, routed, disambiguated,
                   regular_calls, calls, responses, raised_in_chain,
                   accepted_by, outer_caught, main_returned, fmt>>

\* lines 260-273: format the response and return it
format_response ==
    /\ pc = "format"
    /\ LET f == format_for_channel(response[1], heap, "lex")
       IN  /\ invoked' = Append(invoked, "format_for_channel")
           /\ fmt_args' = <<[response |-> response_snapshot(response[1], heap),
                             channel_string |-> "lex"]>>
           /\ IF f.ok
              THEN /\ fmt_output' = <<f.body>>
                   /\ fmt_input' = <<response_snapshot(f.input, heap)>>
                   /\ response' = <<f.input>>
                   /\ main_returned' =
                         <<main_handler_return(raw_dump(response[1], heap), f.body)>>
                   /\ pc' = "handler_return"
                   /\ UNCHANGED <<exc, result>>
              ELSE /\ fmt_output' = <<>>
                   /\ fmt_input' = <<response_snapshot(response[1], heap)>>
                   /\ Escapes(NoFormatterError)
                   /\ UNCHANGED <<response, main_returned>>
    /\ UNCHANGED <<setup, event, lex_payload, heap, modules, chain, messages,
                   callback_name, history>>

\* lines 146-148 and 94/113: the result of _main_handler is returned as it is
handler_return ==
    /\ pc = "handler_return"
    /\ result' = Returned(main_returned[1])
    /\ pc' = "done"
    /\ UNCHANGED <<setup, event, lex_payload, heap, modules, chain, response,
                   messages, callback_name, exc, invoked, history, main_returned, fmt>>

\* lines 95-110: the except clause of handler
outer_except ==
    /\ pc = "outer_except"
    /\ outer_caught' = exc
    /\ IF basic_request_fails(event)
       THEN /\ result' = Returned(create_minimal_error_response)
            /\ invoked' = Append(invoked, "_create_minimal_error_response")
            /\ pc' = "done"
            /\ UNCHANGED fmt
       ELSE LET error_response == handle_exceptions(exc[1], LexRequest(event))
                f == format_for_channel(error_response, heap, "lex")
            IN  /\ invoked' = invoked \o <<"handle_exceptions", "format_for_channel">>
                /\ fmt_args' = <<[response |-> response_snapshot(error_response, heap),
                                  channel_string |-> "lex"]>>
                /\ fmt_input' = <<response_snapshot(f.input, heap)>>
                /\ fmt_output' = IF f.ok THEN <<f.body>> ELSE <<>>
                /\ result' = IF f.ok THEN Returned(f.body) ELSE Raised(NoFormatterError)
                /\ pc' = "done"
    /\ UNCHANGED <<setup, event, lex_payload, heap, modules, chain, response,
                   messages, callback_name, exc, seen, routed, disambiguated,
                   regular_calls, calls, responses,
                   raised_in_chain, accepted_by, handled, main_returned>>

\* the responses a caller of format_for_channel can pass
DirectResponses ==
    {Response(SessionState("Close", "OrderStatus", "Fulfilled",
                           [lex_intent |-> StrVal("OrderStatus"), user |-> v], <<>>),
              None, msgs) : msgs \in FmtMsgLists, v \in AttrValues}

\* format_for_channel(response, channel_string) called on its own
format_for_channel_call ==
    /\ pc = "idle"
    /\ \E r \in DirectResponses, channel_string \in ChannelStrings :
          LET f == format_for_channel(r, heap, channel_string)
          IN  /\ fmt_args' = <<[response |-> response_snapshot(r, heap),
                                channel_string |-> channel_string]>>
              /\ fmt_input' = <<response_snapshot(f.input, heap)>>
              /\ fmt_output' = IF f.ok THEN <<f.body>> ELSE <<>>
              /\ result' = IF f.ok THEN Returned(f.body) ELSE Raised(NoFormatterError)
    /\ invoked' = Append(invoked, "format_for_channel")
    /\ pc' = "done"
    /\ UNCHANGED <<setup, event, lex_payload, heap, modules, chain, response,
                   messages, callback_name, exc, history, main_returned>>

\* the requests call_handler_for_file is given when called on its own
DirectRequests == {LexRequest(e) : e \in {ev \in Events : ev.valid = "ok" /\ ev.requestAttributes = None}}

\* call_handler_for_file(intent_name, lex_request, package_name) called on its own
call_handler_for_file_call ==
    /\ pc = "idle"
    /\ \E intent_name \in DirectNames, lex_request \in DirectRequests :
          \E o \in call_handler_for_file(intent_name, lex_request, heap, modules, "h1") :
              /\ calls' = Append(calls, call_record(intent_name, o))
              /\ heap' = o.heap
              /\ modules' = o.modules
              /\ invoked' = Append(invoked, "call_handler_for_file")
                              \o (IF o.called THEN <<"handler_func">> ELSE <<>>)
    /\ pc' = "done"
    /\ UNCHANGED <<setup, event, lex_payload, chain, response, messages, callback_name,
                   exc, result, seen, routed, disambiguated,
                   regular_calls, responses, raised_in_chain, accepted_by,
                   handled, outer_caught, main_returned, fmt>>

Next ==
    \/ handler
    \/ handle_request
    \/ main_handler_start
    \/ chain_disambiguation
    \/ chain_regular
    \/ after_chain
    \/ callback_pop
    \/ callback_call
    \/ assign_messages
    \/ main_except
    \/ format_response
    \/ handler_return
    \/ outer_except
    \/ format_for_channel_call
    \/ call_handler_for_file_call

Spec == Init /\ [][Next]_vars

(***************************************************************************)
(* Properties                                                              *)
(***************************************************************************)
Last(q) == q[Len(q)]
Occurs(q, x) == \E i \in DOMAIN q : q[i] = x
Count(q, x) == Cardinality({i \in DOMAIN q : q[i] = x})
Index(q, x) == CHOOSE i \in DOMAIN q : q[i] = x

\* the turn came in through LexHelper.handler and is over
TurnDone == pc = "done" /\ invoked # <<>> /\ invoked[1] = "handler"

\* a turn response body the channel accepts
WellFormed(body) ==
    /\ body.sessionState.dialogAction # None
    /\ \A k \in DOMAIN body.sessionState.sessionAttributes :
          body.sessionState.sessionAttributes[k].type = "str"
    /\ \A i \in DOMAIN body.messages : body.messages[i].contentType \in content_process_map

\* the fallback: a closing dialog action with the apology as its only message
IsFallback(body) ==
    /\ body.sessionState.dialogAction = "Close"
    /\ body.sessionState.intent.state = "Failed"
    /\ body.messages = <<dump_message(PlainText(ErrorText))>>

\* C1 as stated: for every Config, also auto_handle_exceptions = False, a turn
\* given to LexHelper.handler ends with a returned response, never a raised
\* exception.
C1_NeverRaisesForAnyConfig ==
    TurnDone => result.kind = "return"

\* C1 amended: with auto_handle_exceptions = True, every turn given to
\* LexHelper.handler ends with a returned, well-formed response, and when an
\* exception reached handler's except clause that response is the fallback.
C1_FallbackWhenAutoHandled ==
    (TurnDone /\ config.auto_handle_exceptions) =>
        /\ result.kind = "return"
        /\ WellFormed(result.body[1])
        /\ (outer_caught # <<>> => IsFallback(result.body[1]))

C1_Witness ==
    /\ TurnDone
    /\ config.auto_handle_exceptions
    /\ outer_caught = <<IntentNotFoundError>>
    /\ result.kind = "return"
    /\ IsFallback(result.body[1])

\* C2: whatever _main_handler returns is the output of a format_for_channel
\* call, that call is the only one of the turn and it is the last thing
\* _main_handler did.
C2_MainHandlerReturnsFormatted ==
    main_returned # <<>> =>
        /\ Count(invoked, "format_for_channel") = 1
        /\ Last(invoked) = "format_for_channel"
        /\ main_returned = fmt_output
        /\ fmt_args[1].channel_string = "lex"

C2_Witness ==
    /\ pc = "handler_return"
    /\ handled # <<>>
    /\ main_returned # <<>>
    /\ main_returned[1].sessionState.sessionAttributes["user"] = str(IntVal)

IsChainHandler(op) == op \in {"disambiguation_intent_handler", "regular_intent_handler"}

\* the handlers of the chain invoked so far, in order
ChainCalls == SelectSeq(invoked, IsChainHandler)

\* C3: once a handler of the chain has raised IntentNotFoundError no other
\* handler is invoked, no response is taken, no callback is dispatched, and the
\* error leaves _main_handler unhandled.
C3_IntentNotFoundAbortsTurn ==
    (\E i \in DOMAIN raised_in_chain : raised_in_chain[i].exc = IntentNotFoundError) =>
        /\ Last(raised_in_chain).exc = IntentNotFoundError
        /\ Cardinality({i \in DOMAIN raised_in_chain :
                           raised_in_chain[i].exc = IntentNotFoundError}) = 1
        /\ Last(ChainCalls) = Last(raised_in_chain).handler
        /\ \A i \in DOMAIN seen : seen[i].by # "callback"
        /\ accepted_by = None /\ responses = <<>> /\ callback_name = None
        /\ Len(routed) <= 1
        /\ handled = <<>> /\ main_returned = <<>>
        /\ pc \in {"main_except", "outer_except", "done"}
        /\ exc = <<IntentNotFoundError>>
        /\ (pc = "done" => \/ result = Raised(IntentNotFoundError)
                           \/ outer_caught = <<IntentNotFoundError>>)

C3_Witness ==
    /\ pc = "done"
    /\ raised_in_chain = <<[handler |-> "disambiguation_intent_handler",
                            exc |-> IntentNotFoundError]>>
    /\ Len(handlers) = 2
    /\ result = Raised(IntentNotFoundError)

\* C4: when the regular intent handler, the last of the chain, raises an
\* exception other than IntentNotFoundError, the exception that reaches the
\* except clause of _main_handler is that same exception.
C4_LastHandlerExceptionPropagates ==
    \A i \in DOMAIN raised_in_chain :
        (/\ raised_in_chain[i].handler = "regular_intent_handler"
         /\ raised_in_chain[i].exc # IntentNotFoundError
         /\ pc = "format")
        => handled = <<raised_in_chain[i].exc>>

\* C5: an exception other than IntentNotFoundError raised by the disambiguation
\* handler is contained: the regular intent handler is invoked next in the same
\* turn and the exception never reaches an except clause outside the loop.
C5_DisambiguationExceptionContained ==
    \A i \in DOMAIN raised_in_chain :
        (/\ raised_in_chain[i].handler = "disambiguation_intent_handler"
         /\ raised_in_chain[i].exc # IntentNotFoundError
         /\ pc # "chain")
        => /\ Occurs(invoked, "regular_intent_handler")
           /\ Index(invoked, "disambiguation_intent_handler")
                < Index(invoked, "regular_intent_handler")
           /\ exc # <<raised_in_chain[i].exc>>
           /\ handled # <<raised_in_chain[i].exc>>
           /\ outer_caught # <<raised_in_chain[i].exc>>

C5_Witness ==
    /\ pc = "done"
    /\ raised_in_chain = <<[handler |-> "disambiguation_intent_handler",
                            exc |-> DisambiguationError]>>
    /\ accepted_by = "regular_intent_handler"
    /\ result.kind = "return"

\* the turn obtained a first response carrying `callback` and a second response
\* from the re-dispatch, and _main_handler has assembled the final response
CallbackTurnAssembled == pc = "format" /\ Len(responses) = 2

\* C6: in a callback turn the final response's messages are the first
\* response's followed by the second's, and its request attributes hold no
\* `callback` key, whatever the second handler returned.
C6_CallbackConcatenatesAndRemovesKey ==
    CallbackTurnAssembled =>
        /\ response[1].messages = responses[1].messages \o responses[2].messages
        /\ ~has_callback(heap, response[1].requestAttributes)

\* C7: the callback intent's logic is shown the first response's session state
\* and the first response's request attributes without the `callback` key; once
\* it has returned, the request carries the second response's session state.
C7_CallbackSeesUpdatedRequest ==
    /\ \A i \in DOMAIN seen :
          seen[i].by = "callback" =>
             /\ responses # <<>>
             /\ responses[1].requestAttributes # <<>>
             /\ responses[1].requestAttributes[1].callback # None
             /\ seen[i].request.sessionState = responses[1].sessionState
             /\ seen[i].request.requestAttributes =
                   <<[responses[1].requestAttributes[1] EXCEPT !.callback = None]>>
    /\ (Len(responses) = 2 /\ pc \in {"assign_messages", "format", "handler_return"})
          => lex_payload.sessionState = responses[2].sessionState

C7_Witness ==
    /\ pc = "assign_messages"
    /\ Len(responses) = 2
    /\ \E i \in DOMAIN seen : seen[i].by = "callback"
    /\ responses[2].sessionState # responses[1].sessionState
    /\ lex_payload.sessionState = responses[2].sessionState

\* C8: the disambiguation handler runs only when disambiguation is enabled, and
\* then before the regular intent handler; when it returns a response the
\* regular intent handler and the intent's own logic are not invoked.
C8_HandlersInPriorityOrder ==
    /\ Occurs(invoked, "disambiguation_intent_handler")
          => config.enable_disambiguation /\ disambiguation_handler
    /\ (disambiguation_handler /\ ChainCalls # <<>>)
          => ChainCalls[1] = "disambiguation_intent_handler"
    /\ Len(ChainCalls) = 2
          => ChainCalls = <<"disambiguation_intent_handler", "regular_intent_handler">>
    /\ Len(ChainCalls) <= 2
    /\ accepted_by = "disambiguation_intent_handler"
          => /\ ~Occurs(invoked, "regular_intent_handler")
             /\ \A i \in DOMAIN seen : seen[i].by # "regular_intent_handler"
             /\ lex_payload.sessionState.sessionAttributes.lex_intent = NoneVal

C8_Witness ==
    /\ pc = "done"
    /\ accepted_by = "disambiguation_intent_handler"
    /\ result.kind = "return"
    /\ Occurs(invoked, "handle_disambiguation")

\* a format_for_channel call that returned
Formatted == fmt_args # <<>> /\ fmt_output # <<>>

SingleCard(msgs) == Len(msgs) = 1 /\ msgs[1].kind = "ImageResponseCard"

\* C9: on the default channel a response of exactly one ImageCard comes out as
\* a PlainText with the card's title followed by the card with title " ";
\* any other message list comes out message for message, titles unchanged.
C9_SingleCardRewrite ==
    (Formatted /\ get_channel(fmt_args[1].channel_string) = "LexChannel") =>
        LET msgs == fmt_args[1].response.messages
        IN  IF SingleCard(msgs)
            THEN fmt_output[1].messages =
                    << [contentType |-> "PlainText", content |-> msgs[1].title, title |-> None],
                       [contentType |-> "ImageResponseCard", content |-> None, title |-> " "] >>
            ELSE fmt_output[1].messages = dump_messages(msgs)

C9_Witness ==
    /\ Formatted
    /\ fmt_args[1].channel_string = "lex"
    /\ fmt_args[1].response.messages = <<ImageCard("Choose")>>
    /\ Len(fmt_output[1].messages) = 2
    /\ fmt_output[1].messages[1].content = "Choose"

\* C10: format_for_channel with channel_string "sms" and a response of exactly
\* one ImageCard prepends no PlainText message and leaves the title unchanged.
C10_NoRewriteOnSms ==
    (/\ Formatted
     /\ fmt_args[1].channel_string = "sms"
     /\ SingleCard(fmt_args[1].response.messages))
    => /\ Len(fmt_output[1].messages) = 1
       /\ fmt_output[1].messages[1].title = fmt_args[1].response.messages[1].title
\* C11: in every output of format_for_channel every session-attribute value is
\* a string, whatever the type of the value in the response.
C11_SessionAttributesAreStrings ==
    Formatted =>
        \A k \in DOMAIN fmt_output[1].sessionState.sessionAttributes :
            fmt_output[1].sessionState.sessionAttributes[k].type = "str"

C11_Witness ==
    /\ Formatted
    /\ fmt_args[1].response.sessionState.sessionAttributes.user = DictVal
    /\ fmt_output[1].sessionState.sessionAttributes["user"] = StrVal("{'a': 1}")
    /\ fmt_output[1].sessionState.sessionAttributes["lex_intent"] = StrVal("OrderStatus")
\* a message whose variant has no registered formatting function
HasUnsupported(msgs) == \E i \in DOMAIN msgs : msgs[i].kind \notin content_process_map

\* the format_for_channel call of _main_handler failed
FormatFailedInTurn == TurnDone /\ exc = <<NoFormatterError>>

\* C12 as stated: when formatting fails in a turn for want of a formatting
\* function, the error reaches the caller of LexHelper.handler.
C12_FormatErrorReachesCaller ==
    FormatFailedInTurn => result = Raised(NoFormatterError)

\* C12 amended: a message without a formatting function makes format_for_channel
\* raise; in a turn the error leaves _main_handler unhandled, and it leaves
\* LexHelper.handler only when auto_handle_exceptions is False; with it True,
\* handler catches the error and returns the fallback.
C12_FormatErrorPropagatesUnlessAutoHandled ==
    /\ (fmt_args # <<>> /\ HasUnsupported(fmt_args[1].response.messages))
          => /\ fmt_output = <<>>
             /\ pc = "done" /\ ~TurnDone => result = Raised(NoFormatterError)
    /\ FormatFailedInTurn
          => /\ main_returned = <<>>
             /\ handled # <<NoFormatterError>>
             /\ IF config.auto_handle_exceptions
                THEN /\ outer_caught = <<NoFormatterError>>
                     /\ result.kind = "return"
                     /\ IsFallback(result.body[1])
                ELSE result = Raised(NoFormatterError)

C12_Witness ==
    /\ FormatFailedInTurn
    /\ ~config.auto_handle_exceptions
    /\ result = Raised(NoFormatterError)
    /\ HasUnsupported(responses[1].messages)
\* a format_for_channel call whose response holds a CustomPayload and nothing
\* else that lacks a formatter has ended
CustomPayloadCall ==
    /\ pc = "done"
    /\ fmt_args # <<>>
    /\ \E i \in DOMAIN fmt_args[1].response.messages :
          fmt_args[1].response.messages[i].kind = "CustomPayload"

\* C13: formatting a response that contains a CustomPayload succeeds, and a
\* payload that is the only message comes out as the text of its `text` or
\* `message` key, or else as a custom payload of the stringified content.
C13_CustomPayloadFormats ==
    CustomPayloadCall =>
        /\ fmt_output # <<>>
        /\ Len(fmt_args[1].response.messages) = 1
              => LET out == format_custom_payload(fmt_args[1].response.messages[1])
                 IN  /\ Len(fmt_output[1].messages) = 1
                     /\ fmt_output[1].messages[1].content = out.content
\* C14: an exception the intent's handler raises leaves call_handler_for_file
\* as that same exception, never as a returned response.
C14_HandlerExceptionPropagates ==
    \A i \in DOMAIN calls :
        (calls[i].called /\ calls[i].raised \in {<<LogicError>>, <<IntentNotFoundError>>})
        => /\ calls[i].kind = "raise"
           /\ calls[i].exc = calls[i].raised
           /\ calls[i].response = <<>>

\* C15: a module found without a handler function makes call_handler_for_file
\* raise a configuration error other than IntentNotFoundError, and no response
\* is returned.
C15_MissingHandlerFunctionIsFatal ==
    \A i \in DOMAIN calls :
        calls[i].status = "no_handler"
        => /\ calls[i].kind = "raise"
           /\ calls[i].exc = <<NoHandlerFunctionError>>
           /\ NoHandlerFunctionError # IntentNotFoundError
           /\ calls[i].response = <<>>

\* C16: when the intent's module cannot be imported call_handler_for_file raises
\* IntentNotFoundError to its caller, returns no response, and the intent's
\* handler is not invoked.
C16_MissingModuleRaisesIntentNotFound ==
    \A i \in DOMAIN calls :
        calls[i].status = "missing"
        => /\ calls[i].kind = "raise"
           /\ calls[i].exc = <<IntentNotFoundError>>
           /\ calls[i].response = <<>>
           /\ ~calls[i].called
           /\ \A j \in DOMAIN seen : seen[j].request.sessionState.intent.name # calls[i].intent

C16_Witness ==
    /\ TurnDone
    /\ Len(calls) = 1
    /\ calls[1].status = "missing"
    /\ calls[1].exc = <<IntentNotFoundError>>
    /\ seen = <<>>
\* the requests the regular intent handler gave to an intent's logic
DispatchedRequests ==
    {seen[i].request : i \in {j \in DOMAIN seen : seen[j].by = "regular_intent_handler"}}

RangeOf(s) == {s[i] : i \in DOMAIN s}

\* C17: the request the regular intent handler dispatches carries a
\* transition_to_exit context of 900 seconds / 20 turns when the intent is not
\* the exit-feedback intent, and the active contexts exactly as received when
\* it is.
C17_TransitionContextBeforeDispatch ==
    \A r \in DispatchedRequests :
        IF r.sessionState.intent.name # "Common_Exit_Feedback"
        THEN [name |-> "transition_to_exit", timeToLiveInSeconds |-> 900, turnsToLive |-> 20]
                \in RangeOf(r.sessionState.activeContexts)
        ELSE r.sessionState.activeContexts = event.activeContexts

C17_Witness ==
    /\ TurnDone
    /\ event.activeContexts = <<OrderContext>>
    /\ \E r \in DispatchedRequests :
          /\ r.sessionState.intent.name = "Common_Exit_Feedback"
          /\ r.sessionState.activeContexts = <<OrderContext>>

\* C18: every active context of the incoming request is still among the active
\* contexts of the request the regular intent handler dispatches.
C18_IncomingContextsKept ==
    \A r \in DispatchedRequests :
        RangeOf(event.activeContexts) \subseteq RangeOf(r.sessionState.activeContexts)
\* a turn answered through intent routing has ended
RoutedTurnDone ==
    /\ TurnDone
    /\ main_returned # <<>>
    /\ handled = <<>>
    /\ accepted_by = "regular_intent_handler"
    /\ routed # <<>>

\* C19: after a turn answered through intent routing the request's session
\* attribute lex_intent is the name of the last intent the turn was routed to,
\* the callback intent's name after a callback re-dispatch.
C19_LexIntentIsLastRouted ==
    RoutedTurnDone =>
        lex_payload.sessionState.sessionAttributes.lex_intent = StrVal(Last(routed))
\* a turn with disambiguation disabled has ended, in which the intent's logic
\* answered with one PlainText message and the session state of its request
OnePlainTextTurn ==
    /\ TurnDone
    /\ ~config.enable_disambiguation
    /\ seen # <<>> /\ seen[1].by = "regular_intent_handler"
    /\ calls[1].called /\ calls[1].raised = <<>> /\ calls[1].kind = "return"
    /\ responses # <<>>
    /\ Len(responses[1].messages) = 1
    /\ responses[1].messages[1].kind = "PlainText"
    /\ responses[1].sessionState = seen[1].request.sessionState

\* the output of the turn is one PlainText message with lex_intent = n
OnePlainTextOutput(n) ==
    /\ result.kind = "return"
    /\ Len(result.body[1].messages) = 1
    /\ result.body[1].messages[1].contentType = "PlainText"
    /\ "lex_intent" \in DOMAIN result.body[1].sessionState.sessionAttributes
    /\ result.body[1].sessionState.sessionAttributes["lex_intent"] = StrVal(n)

\* with disambiguation disabled, every request the regular intent handler gives
\* to the logic of intent N has lex_intent = N
DispatchedWithLexIntent ==
    ~config.enable_disambiguation =>
        \A r \in DispatchedRequests :
            r.sessionState.sessionAttributes.lex_intent = StrVal(r.sessionState.intent.name)

\* C20: with disambiguation disabled the logic of intent N is given a request
\* with lex_intent = N, and when it returns one PlainText message with the
\* request's session state the output has exactly one PlainText message and
\* lex_intent = N.
C20_OnePlainTextScenario ==
    /\ DispatchedWithLexIntent
    /\ OnePlainTextTurn => OnePlainTextOutput(seen[1].request.sessionState.intent.name)

\* C20 amended: the same, for a response whose request attributes carry no
\* callback key.
C20_OnePlainTextScenarioWithoutCallback ==
    /\ DispatchedWithLexIntent
    /\ (OnePlainTextTurn /\ (responses[1].requestAttributes = <<>>
                             \/ responses[1].requestAttributes = <<EmptyDict>>))
          => OnePlainTextOutput(seen[1].request.sessionState.intent.name)

C20_Witness ==
    /\ OnePlainTextTurn
    /\ responses[1].requestAttributes = <<EmptyDict>>
    /\ seen[1].request.sessionState.intent.name = "OrderStatus"
    /\ OnePlainTextOutput("OrderStatus")
    /\ result.body[1].messages[1].content = "hi"
\* C21: with auto_handle_exceptions on, a turn whose event cannot be parsed
\* ends with the static minimal fallback (Close, FallbackIntent Failed, no
\* session attributes, exactly one PlainText message) and format_for_channel
\* is not called.
C21_MinimalFallbackOnUnparsableEvent ==
    (TurnDone /\ config.auto_handle_exceptions /\ event.valid = "malformed") =>
        /\ result.kind = "return"
        /\ result.body[1].sessionState.dialogAction = "Close"
        /\ result.body[1].sessionState.intent = [name |-> "FallbackIntent", state |-> "Failed"]
        /\ DOMAIN result.body[1].sessionState.sessionAttributes = {}
        /\ Len(result.body[1].messages) = 1
        /\ result.body[1].messages[1].contentType = "PlainText"
        /\ Count(invoked, "format_for_channel") = 0
        /\ fmt_args = <<>>
        /\ Last(invoked) = "_create_minimal_error_response"

C21_Witness ==
    /\ TurnDone
    /\ config.auto_handle_exceptions
    /\ event.valid = "malformed"
    /\ outer_caught = <<ParseError>>
    /\ result = Returned(create_minimal_error_response)
Without(s, c) == SelectSeq(s, LAMBDA x : x # c)

\* C22: a name containing `_` is looked up under its lower-cased characters,
\* nothing added or removed (Get_WeatherReport -> get_weatherreport); a
\* CamelCase name without `_` is looked up in separator form: lower case, with
\* an underscore before each capital but the first (GetWeather -> get_weather).
C22_IntentNameNormalised ==
    \A i \in DOMAIN calls :
        LET name == chars(calls[i].intent)
            file == calls[i].file
        IN  /\ \A j \in DOMAIN file : ~is_upper(file[j])
            /\ IF "_" \in RangeOf(name)
               THEN /\ Len(file) = Len(name)
                    /\ \A j \in DOMAIN name : file[j] = lower_char(name[j])
               ELSE /\ Without(file, "_") = [j \in 1..Len(name) |-> lower_char(name[j])]
                    /\ Len(file) = Len(name)
                          + Cardinality({j \in DOMAIN name : j > 1 /\ is_upper(name[j])})
                    /\ \A j \in DOMAIN file :
                          file[j] = "_" => (j > 1 /\ j < Len(file) /\ file[j + 1] # "_")
            /\ calls[i].intent = "Get_WeatherReport"
                  => file = <<"g","e","t","_","w","e","a","t","h","e","r","r","e","p","o","r","t">>
            /\ calls[i].intent = "GetWeather"
                  => file = <<"g","e","t","_","w","e","a","t","h","e","r">>
            /\ calls[i].intent = "OrderStatus"
                  => file = <<"o","r","d","e","r","_","s","t","a","t","u","s">>

C22_Witness ==
    /\ pc = "done"
    /\ Len(calls) = 1
    /\ calls[1].intent = "GetWeather"
    /\ calls[1].called
    /\ calls[1].file = <<"g","e","t","_","w","e","a","t","h","e","r">>
\* a format_for_channel call for the default channel has returned
FormattedForLex == Formatted /\ get_channel(fmt_args[1].channel_string) = "LexChannel"

\* C23: for the default channel the output has one message per input message,
\* in the same order, of the same variant and with the same content and title,
\* unless the input is a single ImageCard (the single-card rewrite).
C23_OneOutputPerInputInOrder ==
    (FormattedForLex /\ ~SingleCard(fmt_args[1].response.messages)) =>
        LET msgs == fmt_args[1].response.messages
            out == fmt_output[1].messages
        IN  /\ Len(out) = Len(msgs)
            /\ \A i \in DOMAIN msgs :
                  /\ out[i].contentType = msgs[i].kind
                  /\ out[i].content = msgs[i].content
                  /\ out[i].title = msgs[i].title

C23_Witness ==
    /\ FormattedForLex
    /\ fmt_args[1].response.messages = <<ImageCard("Choose"), SSML("<speak>hi</speak>")>>
    /\ Len(fmt_output[1].messages) = 2
    /\ fmt_output[1].messages[1].title = "Choose"
    /\ fmt_output[1].messages[2].content = "<speak>hi</speak>"
\* C24: for the SMS channel no ImageCard is in the output, each card of the
\* input comes out as a PlainText message that begins with the card's title;
\* for the default channel a card that is not alone passes through unchanged.
C24_CardDegradedOnSms ==
    Formatted =>
        LET msgs == fmt_args[1].response.messages
            out == fmt_output[1].messages
        IN  IF get_channel(fmt_args[1].channel_string) = "SMSChannel"
            THEN /\ \A j \in DOMAIN out : out[j].contentType # "ImageResponseCard"
                 /\ Len(out) = Len(msgs)
                 /\ \A i \in DOMAIN msgs :
                       msgs[i].kind = "ImageResponseCard"
                       => out[i].contentType = "PlainText" /\ out[i].content = msgs[i].title
            ELSE SingleCard(msgs) \/
                 \A i \in DOMAIN msgs :
                     msgs[i].kind = "ImageResponseCard" => out[i] = dump_message(msgs[i])
\* the choices the messages offer, in message order
RECURSIVE Offered(_)
Offered(msgs) == IF msgs = <<>> THEN <<>> ELSE buttons(Head(msgs)) \o Offered(Tail(msgs))

\* C25: when the formatted messages offer choices the output's session
\* attributes hold options_provided, the string-encoded list of those choices in
\* order; when they offer none the formatter writes no options_provided.
C25_OptionsProvidedWritten ==
    Formatted =>
        LET offered == Offered(fmt_args[1].response.messages)
            attrs == fmt_output[1].sessionState.sessionAttributes
        IN  IF offered # <<>>
            THEN /\ "options_provided" \in DOMAIN attrs
                 /\ attrs["options_provided"] = StrVal(json_dumps(offered))
            ELSE "options_provided" \notin DOMAIN attrs
\* the chain ran to its end and no handler produced a response
ChainExhausted ==
    /\ TurnDone
    /\ handlers # <<>>
    /\ idx > Len(handlers)
    /\ accepted_by = None

\* C26: when no handler of the chain produces a response the turn ends in the
\* "Unable to find handler for intent" error that names the turn's intent,
\* answered by the error response, and no callback is dispatched.
C26_NoHandlerForIntent ==
    ChainExhausted =>
        /\ handled = <<Exc("ValueError", no_handler_message(event.intent))>>
        /\ handled[1].msg \in {"Unable to find handler for intent: OrderStatus",
                               "Unable to find handler for intent: Common_Exit_Feedback"}
        /\ handled[1] # IntentNotFoundError
        /\ result.kind = "return" /\ IsFallback(result.body[1])
        /\ callback_name = None
        /\ responses = <<>>
        /\ \A i \in DOMAIN seen : seen[i].by # "callback"
        /\ Count(invoked, "call_handler_for_file") = 0

C26_Witness ==
    /\ ChainExhausted
    /\ Len(handlers) = 2
    /\ Len(raised_in_chain) = 2
    /\ event.intent = "OrderStatus"
    /\ handled[1].msg = "Unable to find handler for intent: OrderStatus"
\* C27: in every call of the disambiguation handler the collaborator is asked
\* process_disambiguation_response first; a response from it is returned with
\* no analysis made; analyze_request is called only after it returned nothing;
\* handle_disambiguation builds the prompt exactly when the analysis says
\* should_disambiguate and has a candidate; otherwise the handler declines.
C27_DisambiguationOrder ==
    \A i \in DOMAIN disambiguated :
        LET d == disambiguated[i]
            wants == d.steps.analysis_result.should_disambiguate
                        /\ d.steps.analysis_result.candidates > 0
        IN  /\ d.calls[1] = "process_disambiguation_response"
            /\ d.steps.first = "response"
                  => d.kind = "return" /\ d.calls = <<"process_disambiguation_response">>
            /\ Occurs(d.calls, "analyze_request")
                  => d.steps.first = "none" /\ d.calls[2] = "analyze_request"
            /\ Occurs(d.calls, "handle_disambiguation")
                  <=> (d.steps.analysed /\ wants)
            /\ Occurs(d.calls, "handle_disambiguation")
                  => d.calls[3] = "handle_disambiguation" /\ d.kind # "none"
            /\ (d.steps.analysed /\ ~wants) => d.kind = "none"
            /\ d.kind = "none" => (d.steps.analysed /\ ~wants)

C27_Witness ==
    /\ Len(disambiguated) = 1
    /\ disambiguated[1].steps.analysed
    /\ disambiguated[1].steps.analysis_result = [should_disambiguate |-> TRUE, candidates |-> 0]
    /\ disambiguated[1].kind = "none"
    /\ Last(invoked) = "regular_intent_handler"
\* C28: after a format_for_channel call the response it was given has the
\* messages it had before the call, card titles included.
C28_InputResponseUnchanged ==
    Formatted =>
        /\ fmt_input[1].messages = fmt_args[1].response.messages
        /\ fmt_input[1].sessionState = fmt_args[1].response.sessionState
\* a turn in which the callback's response names a callback again
SecondCallbackNamed ==
    /\ Len(responses) = 2
    /\ responses[2].requestAttributes # <<>>
    /\ responses[2].requestAttributes[1].callback # None

\* C29: in a turn call_handler_for_file is invoked at most twice and intent
\* logic at most twice, a callback named by the callback's own response is not
\* followed, and the turn makes a bounded number of invocations (fifteen at
\* most: entry, parse, _main_handler, the disambiguation handler and its three
\* collaborator calls, the regular handler, two dispatches with their logic, a
\* failed formatting, handle_exceptions and the final formatting).
C29_AtMostOneCallback ==
    (invoked # <<>> /\ invoked[1] = "handler") =>
        /\ Count(invoked, "call_handler_for_file") <= 2
        /\ Count(invoked, "handler_func") <= 2
        /\ Len(routed) <= 2 /\ Len(responses) <= 2
        /\ Cardinality({i \in DOMAIN seen : seen[i].by = "callback"}) <= 1
        /\ SecondCallbackNamed => pc \notin {"callback", "callback_call"}
        /\ Len(invoked) <= 15

C29_Witness ==
    /\ TurnDone
    /\ SecondCallbackNamed
    /\ Len(routed) = 2
    /\ result.kind = "return"
\* a turn has ended whose callback re-dispatch raised IntentNotFoundError
CallbackNotFound ==
    /\ TurnDone
    /\ Len(calls) = 2
    /\ Len(responses) = 1
    /\ calls[2].kind = "raise"
    /\ calls[2].exc = <<IntentNotFoundError>>

\* C30: when the callback intent cannot be resolved the caller receives the
\* fallback response (auto_handle_exceptions on) or the raised
\* IntentNotFoundError (off), and no message of the first response is in it.
C30_FirstResponseDiscarded ==
    CallbackNotFound =>
        /\ main_returned = <<>>
        /\ IF config.auto_handle_exceptions
           THEN /\ result.kind = "return"
                /\ IsFallback(result.body[1])
                /\ \A i \in DOMAIN responses[1].messages :
                      dump_message(responses[1].messages[i]) \notin RangeOf(result.body[1].messages)
           ELSE result = Raised(IntentNotFoundError)

C30_Witness ==
    /\ CallbackNotFound
    /\ calls[2].status = "missing"
    /\ config.auto_handle_exceptions
    /\ responses[1].messages = <<PlainText("hi")>>
    /\ IsFallback(result.body[1])
\* C31: the regular intent handler calls call_handler_for_file only when
\* any_unknown_slot_choices answered false; when it answered true the handler
\* returns the response of handle_any_unknown_slot_choice, neither the resolver
\* nor the intent's logic is invoked, and the request already carries
\* lex_intent and (for an intent other than exit feedback) the transition
\* context.
C31_UnknownSlotChoiceSkipsDispatch ==
    \A i \in DOMAIN regular_calls :
        LET c == regular_calls[i]
            name == c.request.sessionState.intent.name
        IN  /\ c.dispatched => c.unknown_slot_choices = "no"
            /\ c.unknown_slot_choices = "yes" =>
                  /\ ~c.dispatched /\ ~c.called
                  /\ c.kind = "return"
                  /\ c.response[1].sessionState.dialogAction = "ElicitSlot"
                  /\ c.response[1].messages = <<PlainText("Please choose one of the options")>>
                  /\ \A j \in DOMAIN seen : seen[j].by # "regular_intent_handler"
                  /\ \A j \in DOMAIN routed : routed[j] \in CallbackNames
                  /\ c.request.sessionState.sessionAttributes.lex_intent = StrVal(name)
                  /\ name # "Common_Exit_Feedback"
                        => TransitionToExit \in RangeOf(c.request.sessionState.activeContexts)

C31_Witness ==
    /\ TurnDone
    /\ Len(regular_calls) = 1
    /\ regular_calls[1].unknown_slot_choices = "yes"
    /\ event.intent = "OrderStatus"
    /\ event.activeContexts = <<OrderContext>>
    /\ lex_payload.sessionState.sessionAttributes.lex_intent = StrVal("OrderStatus")
    /\ regular_calls[1].request.sessionState.activeContexts = <<TransitionToExit>>
    /\ calls = <<>>
    /\ result.kind = "return"
    /\ result.body[1].messages[1].content = "Please choose one of the options"
====
